---- MODULE Spec2Model ----
(***************************************************************************)
(* Model of the Berry solidifier, lib/libesp32/berry/src/be_solidifylib.c. *)
(*                                                                         *)
(* SpecValue models m_solidify_bvalue on one scalar value: the identifier  *)
(* encoder (toidentifier_length, toidentifier), the scratch buffers and    *)
(* the two write paths of the output sink (logfmt, lognofmt).              *)
(*                                                                         *)
(* Bytes are the integers 0..255, a C string is the sequence of its bytes  *)
(* without the terminating NUL, and a buffer written by the code is the    *)
(* sequence of the bytes written, terminating NUL included.                *)
(***************************************************************************)
EXTENDS Integers, Sequences, FiniteSets, TLC

(***************************************************************************)
(* Bounds of the model.                                                    *)
(***************************************************************************)
\* every string of at most MaxLen bytes over Alphabet is an input
MaxLen == 4
\* every string of at most MaxRep copies of one byte of RepAlphabet is an input
MaxRep == 256
\* a bytes instance holds at most MaxBytes bytes
MaxBytes == 3
\* the bytecode of the outermost prototype has at most MaxCode instructions
MaxCode == 2
\* the VM has between 1 and MaxBuiltin builtins
MaxBuiltin == 2
\* a map has at most MaxSlots slots
MaxSlots == 3
\* the native stack holds at most MaxDepth nested calls of the emitters
MaxDepth == 8

\* '_' 'X' 'A' '4' '?' and the byte 0xA4
Alphabet == {95, 88, 65, 52, 63, 164}
\* 'a' '?'
RepAlphabet == {97, 63}

(***************************************************************************)
(* Program constants.                                                      *)
(***************************************************************************)
INST_BUF_SIZE == 768
\* char id_buf_stack[64]
ID_BUF_STACK == 64
\* if (len >= 255): the unformatted path
LONG_STR_LEN == 255
\* if (0xFFFFFF == key_next): the link of the last node of a chain
LASTNODE == 16777215

VARIABLES
    \* ---- m_solidify_bvalue on a scalar (SpecValue) ----
    value,        \* the bvalue being solidified
    ctype_hi,     \* what isalnum() answers for a byte above 0x7F in this build
    vpc,          \* position in m_solidify_bvalue
    len,          \* size_t len = strlen(str)
    id_len,       \* size_t id_len = toidentifier_length(str)
    id_buf,       \* bytes written through id_buf by toidentifier
    id_cap,       \* number of bytes id_buf points to (64 or id_len), 0: none
    id_heap,      \* id_buf != id_buf_stack
    hex_out,      \* bytes written to the buffer be_pushbuffer returned
    heap_live,    \* be_os_malloc buffers not yet passed to be_os_free
    vm_top,       \* values on the VM stack above the depth at entry
    malloc_ok,    \* whether be_os_malloc will succeed
    \* ---- the output and the VM exception, common to all specifications ----
    str_literal,  \* bbool str_literal: the weak family of constructors
    sink,         \* sequence of the writes that reached the output
    raised,       \* "none", or the exception be_raise threw
    \* ---- m_solidify_proto (SpecProto) ----
    builtin_count,  \* be_builtin_count(vm)
    proto_stack,    \* the active calls of m_solidify_proto, innermost last
    \* ---- m_solidify_map (SpecMap) ----
    map,          \* the bmap: [slots, size, count]
    mpc,          \* position in m_solidify_map
    mi,           \* int i of the loop over the slots
    \* ---- solidify.dump: closures, classes, modules (SpecDump) ----
    heap,         \* the VM objects: [class, closure, map, module]
    args,         \* the arguments of solidify.dump: [v, prefix]
    stack,        \* the active calls of the emitters, innermost last
    dpc           \* "start", "running", "returned", "raised", or a crash

valueVars == <<value, ctype_hi, vpc, len, id_len, id_buf, id_cap,
               id_heap, hex_out, heap_live, vm_top, malloc_ok>>
protoVars == <<builtin_count, proto_stack>>
mapVars == <<map, mpc, mi>>
dumpVars == <<heap, args, stack, dpc>>

vars == <<str_literal, sink, raised, valueVars, protoVars, mapVars, dumpVars>>

\* the state of the other specifications, which the actions of one leave alone
notValue == <<protoVars, mapVars, dumpVars>>
notProto == <<valueVars, mapVars, dumpVars>>
notMap == <<valueVars, protoVars, dumpVars>>
notDump == <<valueVars, protoVars, mapVars>>

Min(a, b) == IF a < b THEN a ELSE b

\* the null pointer, where the code holds a pointer to a name or to a class;
\* no name of the model is this string
NULL == "NULL"

(***************************************************************************)
(* Identifier encoder.                                                     *)
(***************************************************************************)
\* isalnum() of <ctype.h>; for a byte above 0x7F the answer depends on the
\* build (signedness of char, locale table): ctype_hi
isalnum(c) ==
    \/ c \in 48..57
    \/ c \in 65..90
    \/ c \in 97..122
    \/ (c >= 128 /\ ctype_hi)

\* p[i] of the C string p (1-based here); the byte after the last is the NUL
CharAt(p, i) == IF i <= Len(p) THEN p[i] ELSE 0

\* toidentifier_length_body counting 2 bytes for an escaped `_X`
toidentifier_length_body_short(p, i) ==
    IF CharAt(p, i) = 95 /\ CharAt(p, i + 1) = 88
    THEN [len |-> 2, p |-> 2]
    ELSE IF isalnum(CharAt(p, i)) \/ CharAt(p, i) = 95
         THEN [len |-> 1, p |-> 1]
         ELSE [len |-> 4, p |-> 1]

\* one iteration of the while loop of toidentifier_length at position i:
\* the increments of len and of p
toidentifier_length_body(p, i) ==
    IF CharAt(p, i) = 95 /\ CharAt(p, i + 1) = 88
    THEN [len |-> 3, p |-> 2]
    ELSE IF isalnum(CharAt(p, i)) \/ CharAt(p, i) = 95
         THEN [len |-> 1, p |-> 1]
         ELSE [len |-> 4, p |-> 1]

\* at most k iterations of the loop from the state st = [i, len]
RECURSIVE toidentifier_length_loop(_, _, _)
toidentifier_length_loop(p, st, k) ==
    IF k = 0 \/ CharAt(p, st.i) = 0
    THEN st
    ELSE LET d == toidentifier_length_body(p, st.i)
         IN toidentifier_length_loop(p, [i |-> st.i + d.p, len |-> st.len + d.len], k - 1)

\* while (*p) { ... }, run in blocks of 16 iterations
RECURSIVE toidentifier_length_while(_, _)
toidentifier_length_while(p, st) ==
    IF CharAt(p, st.i) = 0
    THEN st
    ELSE toidentifier_length_while(p, toidentifier_length_loop(p, st, 16))

toidentifier_length(s) ==
    toidentifier_length_while(s, [i |-> 1, len |-> 1]).len

hexdigit(v) ==
    LET w == v % 16
    IN IF w >= 10 THEN w - 10 + 65 ELSE w + 48

\* toidentifier_body without the rule that escapes a literal `_X`
toidentifier_body_noescape(p, i) ==
    IF isalnum(CharAt(p, i)) \/ CharAt(p, i) = 95
    THEN [to |-> <<CharAt(p, i)>>, p |-> 1]
    ELSE [to |-> <<95, 88, hexdigit((CharAt(p, i) % 256) \div 16),
                   hexdigit(CharAt(p, i) % 16)>>,
          p |-> 1]

\* one iteration of the while loop of toidentifier at position i: the bytes
\* stored through `to` and the increment of p
toidentifier_body(p, i) ==
    IF CharAt(p, i) = 95 /\ CharAt(p, i + 1) = 88
    THEN [to |-> <<95, 88, 95>>, p |-> 2]
    ELSE IF isalnum(CharAt(p, i)) \/ CharAt(p, i) = 95
         THEN [to |-> <<CharAt(p, i)>>, p |-> 1]
         ELSE [to |-> <<95, 88, hexdigit((CharAt(p, i) % 256) \div 16),
                        hexdigit(CharAt(p, i) % 16)>>,
               p |-> 1]

RECURSIVE toidentifier_loop(_, _, _)
toidentifier_loop(p, st, k) ==
    IF k = 0 \/ CharAt(p, st.i) = 0
    THEN st
    ELSE LET d == toidentifier_body(p, st.i)
         IN toidentifier_loop(p, [i |-> st.i + d.p, to |-> st.to \o d.to], k - 1)

RECURSIVE toidentifier_while(_, _)
toidentifier_while(p, st) ==
    IF CharAt(p, st.i) = 0
    THEN st
    ELSE toidentifier_while(p, toidentifier_loop(p, st, 16))

\* the bytes toidentifier(to, p) writes, the final NUL included
toidentifier(p) ==
    Append(toidentifier_while(p, [i |-> 1, to |-> <<>>]).to, 0)

\* the C string held by a buffer: the bytes before the first NUL
CStr(buf) ==
    LET nul == {j \in 1..Len(buf) : buf[j] = 0}
    IN IF nul = {} THEN buf
       ELSE SubSeq(buf, 1, (CHOOSE j \in nul : \A k \in nul : j <= k) - 1)

(***************************************************************************)
(* Output sink.  A write is the record of what reached the output:         *)
(* lead \o arg \o (the first tail_n characters of tail).                   *)
(***************************************************************************)
\* lognofmt(__s): the whole C string, whatever its length
lognofmt(lead, arg) ==
    [fmt |-> FALSE, lead |-> lead, arg |-> arg, tail |-> "", tail_n |-> 0]

\* logfmt(lead "%s" tail, arg): snprintf into char __lbuf[INST_BUF_SIZE]
\* keeps the first INST_BUF_SIZE - 1 characters
logfmt(lead, arg, tail) ==
    LET room == INST_BUF_SIZE - 1 - Len(lead)
        kept == Min(Len(arg), room)
    IN [fmt |-> TRUE, lead |-> lead, arg |-> SubSeq(arg, 1, kept),
        tail |-> tail, tail_n |-> Min(Len(tail), room - kept)]

(***************************************************************************)
(* m_solidify_bvalue, case BE_STRING.                                      *)
(***************************************************************************)
\* strlen(str) and toidentifier_length(str)
StringMeasure ==
    /\ vpc = "entry" /\ value.type = "string"
    /\ len' = Len(value.s)
    /\ id_len' = toidentifier_length(value.s)
    /\ vpc' = "str_alloc"
    /\ UNCHANGED notValue
    /\ UNCHANGED <<str_literal, value, ctype_hi, id_buf, id_cap, id_heap, hex_out,
                   heap_live, vm_top, malloc_ok, sink, raised>>

\* id_buf = id_buf_stack, or be_os_malloc(id_len) when id_len >= 64
StringAlloc ==
    /\ vpc = "str_alloc"
    /\ IF id_len >= ID_BUF_STACK
       THEN IF malloc_ok
            THEN /\ id_cap' = id_len /\ id_heap' = TRUE
                 /\ heap_live' = heap_live + 1
                 /\ vpc' = "str_encode" /\ raised' = raised
            ELSE /\ raised' = "memory_error" /\ vpc' = "raised"
                 /\ UNCHANGED <<id_cap, id_heap, heap_live>>
       ELSE /\ id_cap' = ID_BUF_STACK /\ id_heap' = FALSE
            /\ vpc' = "str_encode"
            /\ UNCHANGED <<heap_live, raised>>
    /\ UNCHANGED notValue
    /\ UNCHANGED <<str_literal, value, ctype_hi, len, id_len, id_buf, hex_out,
                   vm_top, malloc_ok, sink>>

\* toidentifier(id_buf, str)
StringEncode ==
    /\ vpc = "str_encode"
    /\ id_buf' = toidentifier(value.s)
    /\ vpc' = "str_emit"
    /\ UNCHANGED notValue
    /\ UNCHANGED <<str_literal, value, ctype_hi, len, id_len, id_cap, id_heap,
                   hex_out, heap_live, vm_top, malloc_ok, sink, raised>>

\* the three forms of a string constant
StringEmit ==
    /\ vpc = "str_emit"
    /\ sink' = IF len >= LONG_STR_LEN
               THEN sink \o <<lognofmt("be_nested_str_long(", <<>>),
                              lognofmt("", CStr(id_buf)),
                              lognofmt(")", <<>>)>>
               ELSE IF ~str_literal
                    THEN Append(sink, logfmt("be_nested_str(", CStr(id_buf), ")"))
                    ELSE Append(sink, logfmt("be_nested_str_weak(", CStr(id_buf), ")"))
    /\ vpc' = "str_free"
    /\ UNCHANGED notValue
    /\ UNCHANGED <<str_literal, value, ctype_hi, len, id_len, id_buf, id_cap,
                   id_heap, hex_out, heap_live, vm_top, malloc_ok, raised>>

\* StringFree releasing the buffer on the formatted path only
StringFree_formatted_only ==
    /\ vpc = "str_free"
    /\ heap_live' = IF id_heap /\ len < LONG_STR_LEN THEN heap_live - 1 ELSE heap_live
    /\ vpc' = "returned"
    /\ UNCHANGED notValue
    /\ UNCHANGED <<str_literal, value, ctype_hi, len, id_len, id_buf, id_cap,
                   id_heap, hex_out, vm_top, malloc_ok, sink, raised>>

\* if (id_buf != id_buf_stack) be_os_free(id_buf)
StringFree ==
    /\ vpc = "str_free"
    /\ heap_live' = IF id_heap THEN heap_live - 1 ELSE heap_live
    /\ vpc' = "returned"
    /\ UNCHANGED notValue
    /\ UNCHANGED <<str_literal, value, ctype_hi, len, id_len, id_buf, id_cap,
                   id_heap, hex_out, vm_top, malloc_ok, sink, raised>>

(***************************************************************************)
(* m_solidify_bvalue, case BE_INSTANCE.                                    *)
(***************************************************************************)
\* be_bytes_tohex(hex_out, hex_len, bufptr, len): two uppercase hex digits
\* for each byte, then the NUL
RECURSIVE be_bytes_tohex(_)
be_bytes_tohex(data) ==
    IF data = <<>> THEN <<0>>
    ELSE <<hexdigit(Head(data) \div 16), hexdigit(Head(data))>>
         \o be_bytes_tohex(Tail(data))

\* be_pushbuffer(vm, hex_len): a new string is pushed on the VM stack, or
\* the allocation fails and the VM throws before anything is pushed
BytesPush ==
    /\ vpc = "entry" /\ value.type = "instance" /\ value.class = "bytes"
    /\ \/ /\ vm_top' = vm_top + 1
          /\ vpc' = "bytes_hex"
          /\ raised' = raised
       \/ /\ raised' = "memory_error"
          /\ vpc' = "raised"
          /\ vm_top' = vm_top
    /\ UNCHANGED notValue
    /\ UNCHANGED <<str_literal, value, ctype_hi, len, id_len, id_buf, id_cap,
                   id_heap, hex_out, heap_live, malloc_ok, sink>>

\* be_bytes_tohex, logfmt("be_const_bytes_instance(%s)", hex_out)
BytesEmit ==
    /\ vpc = "bytes_hex"
    /\ hex_out' = be_bytes_tohex(value.data)
    /\ sink' = Append(sink, logfmt("be_const_bytes_instance(",
                                   CStr(be_bytes_tohex(value.data)), ")"))
    /\ vpc' = "bytes_pop"
    /\ UNCHANGED notValue
    /\ UNCHANGED <<str_literal, value, ctype_hi, len, id_len, id_buf, id_cap,
                   id_heap, heap_live, vm_top, malloc_ok, raised>>

\* be_pop(vm, 1)
BytesPop ==
    /\ vpc = "bytes_pop"
    /\ vm_top' = vm_top - 1
    /\ vpc' = "returned"
    /\ UNCHANGED notValue
    /\ UNCHANGED <<str_literal, value, ctype_hi, len, id_len, id_buf, id_cap,
                   id_heap, hex_out, heap_live, malloc_ok, sink, raised>>

\* an instance that is not bytes: super/sub linkage, or a class other than
\* map and list, raises (the map and list helpers recurse into member 0,
\* which SpecMap models)
InstanceRaise ==
    /\ vpc = "entry" /\ value.type = "instance" /\ value.class # "bytes"
    /\ value.linked \/ value.class \notin {"map", "list"}
    /\ raised' = "internal_error"
    /\ vpc' = "raised"
    /\ UNCHANGED notValue
    /\ UNCHANGED <<str_literal, value, ctype_hi, len, id_len, id_buf, id_cap,
                   id_heap, hex_out, heap_live, vm_top, malloc_ok, sink>>

(***************************************************************************)
(* m_solidify_bvalue, the cases of one formatted write, and the default.   *)
(***************************************************************************)
ScalarEmit ==
    /\ vpc = "entry" /\ value.type \in {"nil", "bool"}
    /\ sink' = IF value.type = "nil"
               THEN Append(sink, logfmt("be_const_nil()", <<>>, ""))
               ELSE Append(sink, logfmt("be_const_bool(",
                                        <<IF value.b THEN 49 ELSE 48>>, ")"))
    /\ vpc' = "returned"
    /\ UNCHANGED notValue
    /\ UNCHANGED <<str_literal, value, ctype_hi, len, id_len, id_buf, id_cap,
                   id_heap, hex_out, heap_live, vm_top, malloc_ok, raised>>

\* default: "Unsupported type in function constants"
DefaultRaise ==
    /\ vpc = "entry"
    /\ value.type \notin {"nil", "bool", "string", "instance"}
    /\ raised' = "internal_error"
    /\ vpc' = "raised"
    /\ UNCHANGED notValue
    /\ UNCHANGED <<str_literal, value, ctype_hi, len, id_len, id_buf, id_cap,
                   id_heap, hex_out, heap_live, vm_top, malloc_ok, sink>>

(***************************************************************************)
(* The state of a part of the program that a specification does not run.  *)
(***************************************************************************)
IdleValue ==
    /\ value = [type |-> "nil"]
    /\ ctype_hi = FALSE /\ malloc_ok = TRUE
    /\ vpc = "idle"
    /\ len = 0 /\ id_len = 0 /\ id_buf = <<>> /\ id_cap = 0 /\ id_heap = FALSE
    /\ hex_out = <<>>
    /\ heap_live = 0 /\ vm_top = 0

IdleProto ==
    /\ builtin_count = 0
    /\ proto_stack = <<>>

IdleMap ==
    /\ map = [slots |-> <<>>, size |-> 0, count |-> 0]
    /\ mpc = "idle"
    /\ mi = 0

IdleDump ==
    /\ heap = <<>>
    /\ args = <<>>
    /\ stack = <<>>
    /\ dpc = "idle"

(***************************************************************************)
(* The inputs of SpecValue.                                                *)
(***************************************************************************)
Strings(alphabet, n) == UNION {[1..k -> alphabet] : k \in 0..n}
Rep(b, n) == [i \in 1..n |-> b]

StringValues ==
    {[type |-> "string", s |-> s] : s \in Strings(Alphabet, MaxLen)}
    \cup {[type |-> "string", s |-> Rep(b, n)] : b \in RepAlphabet, n \in 0..MaxRep}

\* 0xDE 0x0A
BytesValues ==
    {[type |-> "instance", class |-> "bytes", data |-> d] :
        d \in Strings({222, 10}, MaxBytes)}

OtherValues ==
    {[type |-> "nil"], [type |-> "bool", b |-> TRUE], [type |-> "bool", b |-> FALSE],
     [type |-> "module"]}
    \cup {[type |-> "instance", class |-> c, linked |-> l] :
            c \in {"map", "other"}, l \in {TRUE}}
    \cup {[type |-> "instance", class |-> "other", linked |-> FALSE]}

InitValue ==
    /\ value \in StringValues \cup BytesValues \cup OtherValues
    /\ str_literal \in BOOLEAN
    /\ ctype_hi \in BOOLEAN
    /\ malloc_ok \in BOOLEAN
    /\ vpc = "entry"
    /\ len = 0 /\ id_len = 0 /\ id_buf = <<>> /\ id_cap = 0 /\ id_heap = FALSE
    /\ hex_out = <<>>
    /\ heap_live = 0 /\ vm_top = 0
    /\ sink = <<>>
    /\ raised = "none"
    /\ IdleProto /\ IdleMap /\ IdleDump

NextValue ==
    \/ StringMeasure
    \/ StringAlloc
    \/ StringEncode
    \/ StringEmit
    \/ StringFree
    \/ BytesPush
    \/ BytesEmit
    \/ BytesPop
    \/ InstanceRaise
    \/ ScalarEmit
    \/ DefaultRaise

SpecValue == InitValue /\ [][NextValue]_vars

(***************************************************************************)
(* Properties of the identifier encoder and of the string constants.       *)
(***************************************************************************)
IsUpperHex(c) == c \in 48..57 \/ c \in 65..70
HexValue(c) == IF c \in 48..57 THEN c - 48 ELSE c - 65 + 10

\* the inverse of the three rules at position i of the identifier id:
\* `_X_` is `_X`, `_X` and two uppercase hex digits is that byte, any
\* other character is itself
decode_body(id, i) ==
    IF CharAt(id, i) = 95 /\ CharAt(id, i + 1) = 88 /\ CharAt(id, i + 2) = 95
    THEN [out |-> <<95, 88>>, adv |-> 3]
    ELSE IF /\ CharAt(id, i) = 95 /\ CharAt(id, i + 1) = 88
            /\ IsUpperHex(CharAt(id, i + 2)) /\ IsUpperHex(CharAt(id, i + 3))
         THEN [out |-> <<16 * HexValue(CharAt(id, i + 2)) + HexValue(CharAt(id, i + 3))>>,
               adv |-> 4]
         ELSE [out |-> <<CharAt(id, i)>>, adv |-> 1]

RECURSIVE decode_loop(_, _, _)
decode_loop(id, st, k) ==
    IF k = 0 \/ st.i > Len(id)
    THEN st
    ELSE LET d == decode_body(id, st.i)
         IN decode_loop(id, [i |-> st.i + d.adv, out |-> st.out \o d.out], k - 1)

RECURSIVE decode_while(_, _)
decode_while(id, st) ==
    IF st.i > Len(id) THEN st ELSE decode_while(id, decode_loop(id, st, 16))

decode(id) == decode_while(id, [i |-> 1, out |-> <<>>]).out

\* toidentifier has run on the string
Encoded == value.type = "string" /\ vpc \in {"str_emit", "str_free", "returned"}

\* C1: decoding the identifier toidentifier wrote for a string, by the
\* inverse of the three rules, gives back exactly the string.
C1_RoundTrip == Encoded => decode(CStr(id_buf)) = value.s

\* the string `_X?4` is encoded as `_X__X3F4`
C1_Witness ==
    /\ Encoded
    /\ value.s = <<95, 88, 63, 52>>
    /\ id_buf = <<95, 88, 95, 95, 88, 51, 70, 52, 0>>

\* C9: toidentifier_length(s) is exactly the number of bytes toidentifier
\* writes for s, the terminating NUL included, and the buffer handed to
\* toidentifier holds at least that many bytes.
C9_ExactLength == Encoded => (Len(id_buf) = id_len /\ id_len <= id_cap)

\* `_X?` needs 3 + 4 + 1 bytes; 63 plain characters need the heap buffer
C9_Witness ==
    /\ Encoded
    /\ \/ value.s = <<95, 88, 63>> /\ id_len = 8
       \/ Len(value.s) = 63 /\ id_len = ID_BUF_STACK /\ id_heap

\* what the sink holds of the identifier of the string constant
RECURSIVE SinkArg(_)
SinkArg(w) == IF w = <<>> THEN <<>> ELSE Head(w).arg \o SinkArg(Tail(w))

SinkComplete == \A k \in 1..Len(sink) : sink[k].tail_n = Len(sink[k].tail)

\* C7: the text that reached the sink for a string constant holds its
\* complete encoded identifier and the closing parenthesis: the 768-byte
\* line buffer truncates no string constant.
C7_NoTruncation ==
    (value.type = "string" /\ vpc = "returned")
        => (SinkArg(sink) = CStr(id_buf) /\ SinkComplete)

\* C10: when m_solidify_bvalue has returned or raised, no identifier buffer
\* obtained from be_os_malloc is outstanding and the VM stack is as deep as
\* on entry.
C10_Released == vpc \in {"returned", "raised"} => (heap_live = 0 /\ vm_top = 0)

\* a string whose identifier was on the heap has returned, a bytes instance
\* whose hex buffer was pushed has returned, or be_os_malloc failed
C10_Witness ==
    \/ vpc = "returned" /\ id_heap /\ len >= LONG_STR_LEN
    \/ vpc = "returned" /\ value.type = "instance" /\ hex_out # <<>>
    \/ vpc = "raised" /\ raised = "memory_error"

(***************************************************************************)
(* m_solidify_proto.                                                       *)
(*                                                                         *)
(* A prototype is [nproto, ptab, ktab, code].  As in the VM, ptab holds    *)
(* the nproto sub-prototypes followed by one slot for the parent class, or *)
(* is itself that slot when nproto = 0 (here the sequence of that one      *)
(* slot); the slot is NULL or the name of the class.                       *)
(* An instruction is [op, bx].  An active call is a frame [pr, step, i]:   *)
(* i is the index of the loop the call is in.                              *)
(***************************************************************************)
IGET_OP(ins) == ins.op
IGET_Bx(ins) == ins.bx

m_solidify_get_parentclass(pr) ==
    LET cla == IF pr.nproto > 0 THEN pr.ptab[pr.nproto + 1] ELSE pr.ptab[1]
    IN IF cla # NULL THEN cla ELSE NULL

ProtoTop == proto_stack[Len(proto_stack)]
ProtoRunning == raised = "none" /\ proto_stack # <<>>
ProtoAt(step) == ProtoRunning /\ ProtoTop.step = step
ProtoGoto(step, i) ==
    [proto_stack EXCEPT ![Len(proto_stack)] = [@ EXCEPT !.step = step, !.i = i]]

\* be_nested_proto( nstack, argc, varg, has upvals, upvals, has sup protos
ProtoHeader ==
    /\ ProtoAt("header")
    /\ sink' = Append(sink, [kind |-> "proto_open", nproto |-> ProtoTop.pr.nproto])
    /\ proto_stack' = ProtoGoto("protos", 0)
    /\ UNCHANGED <<str_literal, raised, builtin_count>>
    /\ UNCHANGED notProto

\* for (i < pr->nproto) m_solidify_proto(vm, str_literal, pr->ptab[i], ...)
ProtoSub ==
    /\ ProtoAt("protos")
    /\ ProtoTop.i < ProtoTop.pr.nproto
    /\ proto_stack' = Append(proto_stack,
            [pr |-> ProtoTop.pr.ptab[ProtoTop.i + 1], step |-> "header", i |-> 0])
    /\ UNCHANGED <<str_literal, sink, raised, builtin_count>>
    /\ UNCHANGED notProto

\* the last slot: &be_class_<parent> or NULL; then "has constants"
ProtoParent ==
    /\ ProtoAt("protos")
    /\ ProtoTop.i = ProtoTop.pr.nproto
    /\ sink' = Append(sink, [kind |-> "class_slot",
                             class |-> m_solidify_get_parentclass(ProtoTop.pr)])
    /\ proto_stack' = ProtoGoto("consts", 0)
    /\ UNCHANGED <<str_literal, raised, builtin_count>>
    /\ UNCHANGED notProto

\* for (k < pr->nconst) m_solidify_bvalue(vm, str_literal, &pr->ktab[k], ...):
\* a constant of an unsupported type raises
ProtoConst ==
    /\ ProtoAt("consts")
    /\ ProtoTop.i < Len(ProtoTop.pr.ktab)
    /\ LET k == ProtoTop.pr.ktab[ProtoTop.i + 1]
       IN IF k \in {"nil", "int", "string"}
          THEN /\ sink' = Append(sink, [kind |-> "const", type |-> k])
               /\ proto_stack' = ProtoGoto("consts", ProtoTop.i + 1)
               /\ raised' = raised
          ELSE /\ raised' = "internal_error"
               /\ proto_stack' = <<>>
               /\ sink' = sink
    /\ UNCHANGED <<str_literal, builtin_count>>
    /\ UNCHANGED notProto

\* the name of the prototype, &be_const_str_solidified, binstruction[codesize]
ProtoName ==
    /\ ProtoAt("consts")
    /\ ProtoTop.i = Len(ProtoTop.pr.ktab)
    /\ sink' = sink \o <<[kind |-> "name", weak |-> str_literal],
                          [kind |-> "code_open", codesize |-> Len(ProtoTop.pr.code)]>>
    /\ proto_stack' = ProtoGoto("code", 0)
    /\ UNCHANGED <<str_literal, raised, builtin_count>>
    /\ UNCHANGED notProto

\* ProtoInstr that writes the marker but does not raise
ProtoInstr_noraise ==
    /\ ProtoAt("code")
    /\ ProtoTop.i < Len(ProtoTop.pr.code)
    /\ LET ins == ProtoTop.pr.code[ProtoTop.i + 1]
           op == IGET_OP(ins)
           written == sink \o <<[kind |-> "ins", ins |-> ins],
                                [kind |-> "disasm", pc |-> ProtoTop.i]>>
       IN /\ sink' = IF op \in {"GETGBL", "SETGBL"} /\ IGET_Bx(ins) > builtin_count
                     THEN Append(written, [kind |-> "unsupported_global",
                                           glb |-> IGET_Bx(ins)])
                     ELSE written
          /\ proto_stack' = ProtoGoto("code", ProtoTop.i + 1)
          /\ raised' = raised
    /\ UNCHANGED <<str_literal, builtin_count>>
    /\ UNCHANGED notProto

\* one iteration of for (pc < pr->codesize): the word, its disassembly, and
\* for GETGBL and SETGBL the check of Bx against the builtin count
ProtoInstr ==
    /\ ProtoAt("code")
    /\ ProtoTop.i < Len(ProtoTop.pr.code)
    /\ LET ins == ProtoTop.pr.code[ProtoTop.i + 1]
           op == IGET_OP(ins)
           written == sink \o <<[kind |-> "ins", ins |-> ins],
                                [kind |-> "disasm", pc |-> ProtoTop.i]>>
       IN IF op \in {"GETGBL", "SETGBL"} /\ IGET_Bx(ins) > builtin_count
          THEN /\ sink' = Append(written, [kind |-> "unsupported_global",
                                           glb |-> IGET_Bx(ins)])
               /\ raised' = "internal_error"
               /\ proto_stack' = <<>>
          ELSE /\ sink' = written
               /\ proto_stack' = ProtoGoto("code", ProtoTop.i + 1)
               /\ raised' = raised
    /\ UNCHANGED <<str_literal, builtin_count>>
    /\ UNCHANGED notProto

\* "})" and ")": the call returns, to the loop over ptab if it was nested
ProtoClose ==
    /\ ProtoAt("code")
    /\ ProtoTop.i = Len(ProtoTop.pr.code)
    /\ sink' = Append(sink, [kind |-> "proto_close", depth |-> Len(proto_stack)])
    /\ proto_stack' =
         LET rest == SubSeq(proto_stack, 1, Len(proto_stack) - 1)
         IN IF rest = <<>> THEN rest
            ELSE [rest EXCEPT ![Len(rest)] = [@ EXCEPT !.i = @ + 1]]
    /\ UNCHANGED <<str_literal, raised, builtin_count>>
    /\ UNCHANGED notProto

(***************************************************************************)
(* The inputs of SpecProto.                                                *)
(***************************************************************************)
Instructions(bc) ==
    [op : {"GETGBL", "SETGBL", "LDCONST"}, bx : (bc - 1)..(bc + 1)]

\* a prototype without sub-prototypes: one global access at most
InnerProtos(bc) ==
    {[nproto |-> 0, ptab |-> <<NULL>>, ktab |-> <<>>, code |-> c] :
        c \in {<<>>} \cup {<<[op |-> "GETGBL", bx |-> b]>> : b \in (bc - 1)..(bc + 1)}}

OuterProtos(bc) ==
    {[nproto |-> 0, ptab |-> <<cla>>, ktab |-> k, code |-> c] :
        cla \in {NULL, "A"},
        k \in {<<>>, <<"int", "string">>, <<"int", "module">>},
        c \in Strings(Instructions(bc), MaxCode)}
    \cup
    {[nproto |-> 1, ptab |-> <<sub, "A">>, ktab |-> <<"int">>, code |-> c] :
        sub \in InnerProtos(bc),
        c \in Strings(Instructions(bc), MaxCode)}

InitProto ==
    /\ builtin_count \in 1..MaxBuiltin
    /\ \E pr \in OuterProtos(builtin_count) :
         proto_stack = <<[pr |-> pr, step |-> "header", i |-> 0]>>
    /\ str_literal \in BOOLEAN
    /\ sink = <<>>
    /\ raised = "none"
    /\ IdleValue /\ IdleMap /\ IdleDump

NextProto ==
    \/ ProtoHeader
    \/ ProtoSub
    \/ ProtoParent
    \/ ProtoConst
    \/ ProtoName
    \/ ProtoInstr
    \/ ProtoClose

SpecProto == InitProto /\ [][NextProto]_vars

(***************************************************************************)
(* Properties of the validation of global accesses.                        *)
(***************************************************************************)
IsGlobalAccess(w) == w.kind = "ins" /\ IGET_OP(w.ins) \in {"GETGBL", "SETGBL"}
SinkGlobals == {k \in 1..Len(sink) : IsGlobalAccess(sink[k])}
ProtoDone == proto_stack = <<>> /\ raised = "none" /\ sink # <<>>

\* C2: once a GETGBL or SETGBL whose Bx is not an index of the builtin
\* table (0..builtin_count-1) has been met, internal_error is raised, and a
\* prototype emitted to completion holds no such instruction.
C2_GlobalsAreBuiltins ==
    \A k \in SinkGlobals :
        IGET_Bx(sink[k].ins) \notin 0..(builtin_count - 1)
            => (raised = "internal_error" /\ ~ProtoDone)

\* C3 as stated: every GETGBL or SETGBL word on the sink has
\* Bx <= builtin_count, also after emission aborted.
C3_SinkGlobalsInRange ==
    \A k \in SinkGlobals : IGET_Bx(sink[k].ins) <= builtin_count

\* C3: every GETGBL or SETGBL word on the sink has Bx <= builtin_count,
\* except the last word written before emission aborted with
\* internal_error, which is followed by its disassembly and the
\* "unsupported global" marker only.
C3_SinkGlobalsInRangeUnlessAborted ==
    \A k \in SinkGlobals :
        IGET_Bx(sink[k].ins) > builtin_count
            => /\ raised = "internal_error"
               /\ k = Len(sink) - 2
               /\ sink[Len(sink)] = [kind |-> "unsupported_global",
                                     glb |-> IGET_Bx(sink[k].ins)]

\* emission aborted on a global beyond the builtin count after an accepted
\* global access was written
C3_Witness ==
    /\ raised = "internal_error"
    /\ \E k \in SinkGlobals : IGET_Bx(sink[k].ins) <= builtin_count
    /\ \E k \in SinkGlobals : IGET_Bx(sink[k].ins) > builtin_count

(***************************************************************************)
(* m_solidify_map.                                                         *)
(*                                                                         *)
(* A map is [slots, size, count]; a slot is [key, value, next], the key of *)
(* an unused slot is nil, next is the 0-based index of the next slot of    *)
(* the chain or LASTNODE.  The values of SpecMap are scalars.              *)
(***************************************************************************)
NilKey == [type |-> "nil"]
MapSlotAt(i) == map.slots[i + 1]

\* be_map_compact(vm, map): drops the unused slots at the end of the array
be_map_compact(m) ==
    LET used == {i \in 1..Len(m.slots) : m.slots[i].key # NilKey}
        last == IF used = {} THEN 0 ELSE CHOOSE i \in used : \A j \in used : j <= i
    IN [slots |-> SubSeq(m.slots, 1, last), size |-> last, count |-> m.count]

\* key_next that leaves the link of the last node as it is stored
key_next_raw(node) == node.next

\* int key_next = node->key.next; if (0xFFFFFF == key_next) key_next = -1
key_next(node) == IF node.next = LASTNODE THEN -1 ELSE node.next

\* be_map_compact, be_nested_map(count, and the opening of the bmapnode array
MapCompact ==
    /\ mpc = "entry"
    /\ map' = be_map_compact(map)
    /\ sink' = Append(sink, [kind |-> "map_open", count |-> be_map_compact(map).count])
    /\ mpc' = "slots"
    /\ mi' = 0
    /\ UNCHANGED <<str_literal, raised>>
    /\ UNCHANGED notMap

\* if (node->key.type == BE_NIL) continue
MapSkip ==
    /\ mpc = "slots" /\ mi < map.size
    /\ MapSlotAt(mi).key.type = "nil"
    /\ mi' = mi + 1
    /\ UNCHANGED <<str_literal, sink, raised, map, mpc>>
    /\ UNCHANGED notMap

\* a string or integer key: "{ be_const_key(id, next), ", the value through
\* m_solidify_bvalue, which raises on an unsupported type, and " },"
MapEntry ==
    /\ mpc = "slots" /\ mi < map.size
    /\ MapSlotAt(mi).key.type \in {"string", "int"}
    /\ LET node == MapSlotAt(mi)
           key == [kind |-> "key", key |-> node.key,
                   id |-> IF node.key.type = "string"
                          THEN CStr(toidentifier(node.key.s)) ELSE <<>>,
                   weak |-> str_literal /\ node.key.type = "string",
                   next |-> key_next(node)]
       IN IF node.value.type \in {"nil", "bool", "int"}
          THEN /\ sink' = sink \o <<key, [kind |-> "value", value |-> node.value],
                                    [kind |-> "entry_end"]>>
               /\ mi' = mi + 1
               /\ UNCHANGED <<raised, mpc>>
          ELSE /\ sink' = Append(sink, key)
               /\ raised' = "internal_error"
               /\ mpc' = "raised"
               /\ mi' = mi
    /\ UNCHANGED <<str_literal, map>>
    /\ UNCHANGED notMap

\* any other key: "Unsupported type in key"
MapBadKey ==
    /\ mpc = "slots" /\ mi < map.size
    /\ MapSlotAt(mi).key.type \notin {"nil", "string", "int"}
    /\ raised' = "internal_error"
    /\ mpc' = "raised"
    /\ UNCHANGED <<str_literal, sink, map, mi>>
    /\ UNCHANGED notMap

\* "}))"
MapClose ==
    /\ mpc = "slots" /\ mi = map.size
    /\ sink' = Append(sink, [kind |-> "map_close"])
    /\ mpc' = "returned"
    /\ UNCHANGED <<str_literal, raised, map, mi>>
    /\ UNCHANGED notMap

(***************************************************************************)
(* The inputs of SpecMap: the slot arrays of a VM map.  Keys are distinct, *)
(* a link leads to another used slot, count is the number of used slots.   *)
(***************************************************************************)
\* "k_X", 7, and a real, which is no legal key
MapKeys ==
    {[type |-> "string", s |-> <<107, 95, 88>>], [type |-> "int", i |-> 7],
     [type |-> "real"]}
MapValues == {[type |-> "int", i |-> 1], [type |-> "module"]}

MapNodes(n) ==
    [key : MapKeys, value : MapValues, next : (0..(n - 1)) \cup {LASTNODE}]
    \cup {[key |-> NilKey, value |-> [type |-> "nil"], next |-> LASTNODE]}

IsSlotArray(s) ==
    /\ \A i, j \in 1..Len(s) :
         (i # j /\ s[i].key # NilKey) => s[i].key # s[j].key
    /\ \A i \in 1..Len(s) :
         s[i].next # LASTNODE
            => (s[i].next # i - 1 /\ s[s[i].next + 1].key # NilKey)

Maps ==
    {[slots |-> s, size |-> Len(s),
      count |-> Cardinality({i \in 1..Len(s) : s[i].key # NilKey})] :
        s \in {a \in UNION {[1..n -> MapNodes(n)] : n \in 0..MaxSlots} : IsSlotArray(a)}}

InitMap ==
    /\ map \in Maps
    /\ mpc = "entry"
    /\ mi = 0
    /\ str_literal \in BOOLEAN
    /\ sink = <<>>
    /\ raised = "none"
    /\ IdleValue /\ IdleProto /\ IdleDump

NextMap ==
    \/ MapCompact
    \/ MapSkip
    \/ MapEntry
    \/ MapBadKey
    \/ MapClose

SpecMap == InitMap /\ [][NextMap]_vars

(***************************************************************************)
(* Properties of the emitted bmapnode array.                               *)
(***************************************************************************)
IsKey(w) == w.kind = "key"
\* the emitted array: its entries in the order written
MapEntries == SelectSeq(sink, IsKey)

C6_PositionsPreserved ==
    mpc \in {"slots", "returned"} =>
        /\ \A j \in 1..Len(MapEntries) : MapEntries[j].key = map.slots[j].key
        /\ mpc = "returned" =>
             \A k \in 1..Len(MapEntries) :
                 MapEntries[k].next # -1 =>
                     /\ MapEntries[k].next + 1 <= Len(MapEntries)
                     /\ MapEntries[MapEntries[k].next + 1].key
                            = map.slots[MapEntries[k].next + 1].key

(***************************************************************************)
(* solidify.dump on closures, classes and modules.                        *)
(*                                                                         *)
(* heap.class[name] = [members, super], heap.closure[id] = [proto,         *)
(* nupvals], heap.map[id] = the used nodes of a map instance, heap.module  *)
(* = [name, table].  A members map or table is [null, nodes]: the null     *)
(* pointer, or the used nodes [key, value] of the map in slot order, the   *)
(* order of be_map_next.  A                                                *)
(* prototype is [name, varg, nproto, ptab, ktab].  A value refers to a     *)
(* closure, a class or a map instance by name, so a graph may be cyclic.   *)
(* A frame of the stack is one active call: [fn, obj, prefix, step, k].    *)
(***************************************************************************)
\* snprintf(prefixname, sizeof(prefixname), "class_%s", classname)
ClassPrefix(classname) == "class_" \o classname

DumpTop == stack[Len(stack)]
DumpAt(fn, step) ==
    dpc = "running" /\ stack # <<>> /\ DumpTop.fn = fn /\ DumpTop.step = step
\* the innermost call moves on to step, with loop index k
Resume(step, k) ==
    [stack EXCEPT ![Len(stack)] = [@ EXCEPT !.step = step, !.k = k]]
Frame(fn, obj, prefix) ==
    [fn |-> fn, obj |-> obj, prefix |-> prefix, step |-> "entry", k |-> 0]

\* a nested call: one more frame on the native stack, which overflows
\* beyond MaxDepth frames
Call(resumed, frame) ==
    IF Len(resumed) < MaxDepth
    THEN stack' = Append(resumed, frame) /\ dpc' = dpc
    ELSE stack' = resumed /\ dpc' = "stack_overflow"

\* the innermost call returns; the last return is the one of m_dump
Return ==
    /\ stack' = SubSeq(stack, 1, Len(stack) - 1)
    /\ dpc' = IF Len(stack) = 1 THEN "returned" ELSE dpc

\* be_raise: the exception unwinds every active call
Raise(e) == raised' = e /\ stack' = <<>> /\ dpc' = "raised"

\* m_dump: the dispatch on the type of the first argument
Dump ==
    /\ dpc = "start"
    /\ CASE args.v.type = "closure" ->
              stack' = <<Frame("closure", args.v.id, args.prefix)>>
              /\ dpc' = "running" /\ raised' = raised
         [] args.v.type = "class" ->
              stack' = <<Frame("subclass", args.v.name, NULL)>>
              /\ dpc' = "running" /\ raised' = raised
         [] args.v.type = "module" ->
              stack' = <<Frame("module", "module", NULL)>>
              /\ dpc' = "running" /\ raised' = raised
         [] OTHER -> Raise("value_error")
    /\ UNCHANGED <<str_literal, sink, heap, args>>
    /\ UNCHANGED notDump

(***************************************************************************)
(* m_solidify_closure.                                                     *)
(***************************************************************************)
ProtoOf(clo) == heap.closure[clo].proto

\* strcmp(parentclass_prefix, prefixname) != 0, for a prefix that is there
IsBorrowed(parentclass_name, prefixname) ==
    ClassPrefix(parentclass_name) # prefixname

BorrowedText(func_name, parentclass_name) ==
    <<[kind |-> "borrowed_comment", name |-> func_name,
       from |-> ClassPrefix(parentclass_name)],
      [kind |-> "extern_closure", prefix |-> ClassPrefix(parentclass_name),
       name |-> func_name]>>

\* the parent class and the comparison of its prefix with prefixname.  With
\* a parent class and prefixname == NULL, strcmp reads through the null
\* pointer: the process faults, or the bytes found there differ from the
\* prefix and the method counts as borrowed.
ClosureCheck ==
    /\ DumpAt("closure", "entry")
    /\ LET f == DumpTop
           pr == ProtoOf(f.obj)
           parentclass_name == m_solidify_get_parentclass(pr)
           borrowed == /\ sink' = sink \o BorrowedText(pr.name, parentclass_name)
                       /\ Return
           body == /\ sink' = IF heap.closure[f.obj].nupvals > 0
                              THEN Append(sink, [kind |-> "upvals_marker"])
                              ELSE sink
                   /\ stack' = Resume("inner", 0)
                   /\ dpc' = dpc
       IN IF parentclass_name # NULL /\ f.prefix = NULL
          THEN \/ borrowed
               \/ dpc' = "segfault" /\ UNCHANGED <<sink, stack>>
          ELSE IF parentclass_name # NULL /\ IsBorrowed(parentclass_name, f.prefix)
               THEN borrowed
               ELSE body
    /\ UNCHANGED <<str_literal, raised, heap, args>>
    /\ UNCHANGED notDump

\* one iteration of the loop of m_solidify_proto_inner_class: a class
\* constant is emitted by m_solidify_subclass, but for the `_class` constant
\* at index 0 of a static method
ClosureInner ==
    /\ DumpAt("closure", "inner")
    /\ LET pr == ProtoOf(DumpTop.obj)
           k == DumpTop.k
       IN /\ k < Len(pr.ktab)
          /\ IF /\ pr.ktab[k + 1].type = "class"
                /\ ~(k = 0 /\ "STATICMETHOD" \in pr.varg)
             THEN Call(Resume("inner", k + 1),
                       Frame("subclass", pr.ktab[k + 1].name, NULL))
             ELSE stack' = Resume("inner", k + 1) /\ dpc' = dpc
    /\ UNCHANGED <<str_literal, sink, raised, heap, args>>
    /\ UNCHANGED notDump

\* what m_solidify_proto writes for pr: the sub-prototypes, the slot of
\* the parent class, the constants
RECURSIVE ProtoText(_)
ProtoText(pr) ==
    LET subs == IF pr.nproto > 0 THEN ProtoText(pr.ptab[1]) ELSE <<>>
        const(k) == [kind |-> "const", value |-> pr.ktab[k]]
    IN <<[kind |-> "proto", name |-> pr.name, nproto |-> pr.nproto]>>
       \o subs
       \o <<[kind |-> "class_slot", class |-> m_solidify_get_parentclass(pr)]>>
       \o [k \in 1..Len(pr.ktab) |-> const(k)]
       \o <<[kind |-> "proto_end", name |-> pr.name]>>

\* the banner, the extern of the parent class, be_local_closure( with the
\* prototype, and ");"
ClosureBody ==
    /\ DumpAt("closure", "inner")
    /\ LET f == DumpTop
           pr == ProtoOf(f.obj)
           parentclass_name == m_solidify_get_parentclass(pr)
       IN /\ f.k = Len(pr.ktab)
          /\ sink' = sink
                \o <<[kind |-> "banner_function", name |-> pr.name]>>
                \o (IF parentclass_name # NULL
                    THEN <<[kind |-> "extern_class", class |-> parentclass_name]>>
                    ELSE <<>>)
                \o <<[kind |-> "local_closure", prefix |-> f.prefix, name |-> pr.name]>>
                \o ProtoText(pr)
                \o <<[kind |-> "closure_end", name |-> pr.name]>>
    /\ Return
    /\ UNCHANGED <<str_literal, raised, heap, args>>
    /\ UNCHANGED notDump

(***************************************************************************)
(* m_solidify_subclass.                                                    *)
(***************************************************************************)
\* m_solidify_subclass without its forward declaration
SubclassExtern_silent ==
    /\ DumpAt("subclass", "entry")
    /\ stack' = Resume("members", 0)
    /\ UNCHANGED <<str_literal, sink, raised, heap, args, dpc>>
    /\ UNCHANGED notDump

\* the forward declaration: extern const bclass be_class_<name>
SubclassExtern ==
    /\ DumpAt("subclass", "entry")
    /\ sink' = Append(sink, [kind |-> "extern_class", class |-> DumpTop.obj])
    /\ stack' = Resume("members", 0)
    /\ UNCHANGED <<str_literal, raised, heap, args, dpc>>
    /\ UNCHANGED notDump

\* one step of the iteration on the members: a closure under a string key
\* is emitted by m_solidify_closure with the prefix class_<name>
SubclassMember ==
    /\ DumpAt("subclass", "members")
    /\ LET members == heap.class[DumpTop.obj].members
           k == DumpTop.k
       IN /\ ~members.null
          /\ k < Len(members.nodes)
          /\ IF /\ members.nodes[k + 1].key.type = "string"
                /\ members.nodes[k + 1].value.type = "closure"
             THEN Call(Resume("members", k + 1),
                       Frame("closure", members.nodes[k + 1].value.id,
                             ClassPrefix(DumpTop.obj)))
             ELSE stack' = Resume("members", k + 1) /\ dpc' = dpc
    /\ UNCHANGED <<str_literal, sink, raised, heap, args>>
    /\ UNCHANGED notDump

\* the banner, the extern of the super class, be_local_class( name, nvar,
\* super, and the members through m_solidify_map
SubclassDefine ==
    /\ DumpAt("subclass", "members")
    /\ LET cla == heap.class[DumpTop.obj]
       IN /\ cla.members.null \/ DumpTop.k = Len(cla.members.nodes)
          /\ sink' = sink
                \o <<[kind |-> "banner_class", class |-> DumpTop.obj]>>
                \o (IF cla.super # NULL
                    THEN <<[kind |-> "extern_class", class |-> cla.super]>>
                    ELSE <<>>)
                \o <<[kind |-> "local_class", class |-> DumpTop.obj,
                      super |-> cla.super]>>
          /\ IF ~cla.members.null
             THEN Call(Resume("close", 0),
                       Frame("map_members", DumpTop.obj, ClassPrefix(DumpTop.obj)))
             ELSE stack' = Resume("close", 0) /\ dpc' = dpc
    /\ UNCHANGED <<str_literal, raised, heap, args>>
    /\ UNCHANGED notDump

\* the name of the class and ");"
SubclassClose ==
    /\ DumpAt("subclass", "close")
    /\ sink' = Append(sink, [kind |-> "class_end", class |-> DumpTop.obj,
                             weak |-> str_literal])
    /\ Return
    /\ UNCHANGED <<str_literal, raised, heap, args>>
    /\ UNCHANGED notDump

(***************************************************************************)
(* m_solidify_map on the members of a class, the table of a module and the *)
(* map of a map instance, with m_solidify_bvalue on their values.          *)
(***************************************************************************)
IsMapFrame(f) == f.fn \in {"map_members", "map_table", "map_instance"}
DumpMapNodes(f) ==
    CASE f.fn = "map_members" -> heap.class[f.obj].members.nodes
      [] f.fn = "map_table" -> heap.module.table.nodes
      [] f.fn = "map_instance" -> heap.map[f.obj]
DumpMapAt(step) ==
    dpc = "running" /\ stack # <<>> /\ IsMapFrame(DumpTop) /\ DumpTop.step = step

\* be_map_compact and be_nested_map(count,
DumpMapOpen ==
    /\ DumpMapAt("entry")
    /\ sink' = Append(sink, [kind |-> "map_open",
                             count |-> Len(DumpMapNodes(DumpTop))])
    /\ stack' = Resume("slots", 0)
    /\ UNCHANGED <<str_literal, raised, heap, args, dpc>>
    /\ UNCHANGED notDump

\* m_solidify_bvalue of a value that is written without a nested call
ConstText(v, prefixname) ==
    CASE v.type = "closure" ->
            LET parentclass_name == m_solidify_get_parentclass(ProtoOf(v.id))
            IN [kind |-> "const_closure", name |-> ProtoOf(v.id).name,
                prefix |-> IF parentclass_name # NULL
                           THEN ClassPrefix(parentclass_name) ELSE prefixname]
      [] v.type = "class" -> [kind |-> "const_class", class |-> v.name]
      [] OTHER -> [kind |-> "const", value |-> v]

\* one slot: the key, and the value through m_solidify_bvalue; the map of a
\* map instance is a nested call of m_solidify_map
DumpMapNode ==
    /\ DumpMapAt("slots")
    /\ LET f == DumpTop
           nodes == DumpMapNodes(f)
           k == f.k
       IN /\ k < Len(nodes)
          /\ LET node == nodes[k + 1]
                 key == [kind |-> "key", key |-> node.key]
             IN IF node.key.type \notin {"string", "int"}
                THEN Raise("internal_error") /\ sink' = sink
                ELSE IF node.value.type \in {"nil", "int", "closure", "class"}
                THEN /\ sink' = sink \o <<key, ConstText(node.value, f.prefix),
                                          [kind |-> "entry_end"]>>
                     /\ stack' = Resume("slots", k + 1)
                     /\ UNCHANGED <<raised, dpc>>
                ELSE IF node.value.type = "instance"
                THEN /\ sink' = sink \o <<key, [kind |-> "simple_instance",
                                                class |-> "map"]>>
                     /\ Call(Resume("value", k),
                             Frame("map_instance", node.value.id, f.prefix))
                     /\ raised' = raised
                ELSE Raise("internal_error") /\ sink' = Append(sink, key)
    /\ UNCHANGED <<str_literal, heap, args>>
    /\ UNCHANGED notDump

\* after the nested map: ") } ))" and " },"
DumpMapValueEnd ==
    /\ DumpMapAt("value")
    /\ sink' = sink \o <<[kind |-> "simple_instance_end"], [kind |-> "entry_end"]>>
    /\ stack' = Resume("slots", DumpTop.k + 1)
    /\ UNCHANGED <<str_literal, raised, heap, args, dpc>>
    /\ UNCHANGED notDump

\* "}))"
DumpMapClose ==
    /\ DumpMapAt("slots")
    /\ DumpTop.k = Len(DumpMapNodes(DumpTop))
    /\ sink' = Append(sink, [kind |-> "map_close"])
    /\ Return
    /\ UNCHANGED <<str_literal, raised, heap, args>>
    /\ UNCHANGED notDump

(***************************************************************************)
(* m_solidify_module.                                                      *)
(***************************************************************************)
\* one step of the iteration on the table: a closure under a string key is
\* emitted without prefix, a class under a string key by m_solidify_subclass
ModuleMember ==
    /\ DumpAt("module", "entry")
    /\ LET table == heap.module.table
           k == DumpTop.k
       IN /\ ~table.null
          /\ k < Len(table.nodes)
          /\ IF /\ table.nodes[k + 1].key.type = "string"
                /\ table.nodes[k + 1].value.type = "closure"
             THEN Call(Resume("entry", k + 1),
                       Frame("closure", table.nodes[k + 1].value.id, NULL))
             ELSE IF /\ table.nodes[k + 1].key.type = "string"
                     /\ table.nodes[k + 1].value.type = "class"
             THEN Call(Resume("entry", k + 1),
                       Frame("subclass", table.nodes[k + 1].value.name, NULL))
             ELSE stack' = Resume("entry", k + 1) /\ dpc' = dpc
    /\ UNCHANGED <<str_literal, sink, raised, heap, args>>
    /\ UNCHANGED notDump

\* the banner, be_local_module( name, and the table through m_solidify_map
ModuleDefine ==
    /\ DumpAt("module", "entry")
    /\ LET table == heap.module.table
       IN /\ table.null \/ DumpTop.k = Len(table.nodes)
          /\ sink' = sink \o <<[kind |-> "banner_module", name |-> heap.module.name],
                               [kind |-> "local_module", name |-> heap.module.name]>>
          /\ IF ~table.null
             THEN Call(Resume("close", 0), Frame("map_table", "module", NULL))
             ELSE stack' = Resume("close", 0) /\ dpc' = dpc
    /\ UNCHANGED <<str_literal, raised, heap, args>>
    /\ UNCHANGED notDump

\* ");" and be_define_const_native_module
ModuleClose ==
    /\ DumpAt("module", "close")
    /\ sink' = Append(sink, [kind |-> "module_end", name |-> heap.module.name])
    /\ Return
    /\ UNCHANGED <<str_literal, raised, heap, args>>
    /\ UNCHANGED notDump

(***************************************************************************)
(* The inputs of SpecDump: graphs of two classes A and B, two closures f   *)
(* and g, a map instance M and a module, and the arguments of              *)
(* solidify.dump.                                                          *)
(***************************************************************************)
StrKey(s) == [type |-> "string", s |-> s]
IntKey(i) == [type |-> "int", i |-> i]
Node(k, v) == [key |-> k, value |-> v]
ClosureRef(id) == [type |-> "closure", id |-> id]
ClassRef(name) == [type |-> "class", name |-> name]
InstanceRef(id) == [type |-> "instance", id |-> id]
IntValue == [type |-> "int"]
NoMap == [null |-> TRUE, nodes |-> <<>>]
MapOf(nodes) == [null |-> FALSE, nodes |-> nodes]

\* a prototype: subs are its sub-prototypes, parent its parent class or NULL
Proto(name, varg, subs, parent, ktab) ==
    [name |-> name, varg |-> varg, nproto |-> Len(subs),
     ptab |-> Append(subs, parent),
     ktab |-> ktab]
Closure(proto, nupvals) == [proto |-> proto, nupvals |-> nupvals]

Heap(classA, classB, f, g, M, table) ==
    [class |-> [n \in {"A", "B"} |-> IF n = "A" THEN classA ELSE classB],
     closure |-> [n \in {"f", "g"} |-> IF n = "f" THEN f ELSE g],
     map |-> [n \in {"M"} |-> M],
     module |-> [name |-> "mod", table |-> table]]

KTabs == {<<>>, <<IntValue>>, <<ClassRef("A")>>, <<ClassRef("B")>>,
          <<IntValue, ClassRef("A")>>}
SubProtos ==
    {<<>>} \cup {<<Proto("f_0", {}, <<>>, NULL, k)>> : k \in {<<>>, <<ClassRef("B")>>}}
VArgs == {{}, {"STATICMETHOD"}}
PlainG == Closure(Proto("g", {}, <<>>, "B", <<>>), 0)
PlainClass == [members |-> NoMap, super |-> NULL]
PlainM == <<Node(StrKey("k"), IntValue)>>

\* solidify.dump(f [, literal, out, prefix]) on a closure
ClosureInputs ==
    {[heap |-> Heap([members |-> MapOf(<<Node(StrKey("f"), ClosureRef("f"))>>),
                     super |-> NULL],
                    PlainClass,
                    Closure(Proto("f", varg, subs, parent, ktab), nupvals),
                    PlainG, PlainM, NoMap),
      args |-> [v |-> ClosureRef("f"), prefix |-> prefix]] :
        prefix \in {NULL, "class_A", "class_B", "A"},
        parent \in {NULL, "A", "B"},
        ktab \in KTabs, varg \in VArgs, subs \in SubProtos, nupvals \in {0, 1}}

\* solidify.dump(A) on a class
ClassInputs ==
    {[heap |-> Heap([members |-> members, super |-> super],
                    [members |-> membersB, super |-> NULL],
                    Closure(Proto("f", varg, <<>>, parent, ktab), 0),
                    g, M, NoMap),
      args |-> [v |-> ClassRef("A"), prefix |-> NULL]] :
        members \in {NoMap,
                     MapOf(<<Node(StrKey("f"), ClosureRef("f"))>>),
                     MapOf(<<Node(StrKey("f"), ClosureRef("f")),
                             Node(StrKey("g"), ClosureRef("g"))>>),
                     MapOf(<<Node(StrKey("v"), IntValue),
                             Node(StrKey("f"), ClosureRef("f"))>>),
                     MapOf(<<Node(StrKey("s"), InstanceRef("M")),
                             Node(StrKey("f"), ClosureRef("f"))>>),
                     MapOf(<<Node(IntKey(7), ClosureRef("f"))>>)},
        super \in {NULL, "B"},
        membersB \in {NoMap, MapOf(<<Node(StrKey("g"), ClosureRef("g"))>>)},
        parent \in {NULL, "A", "B"},
        ktab \in KTabs, varg \in VArgs,
        g \in {PlainG,
               Closure(Proto("g", {}, <<>>, "A", <<>>), 0),
               Closure(Proto("g", {}, <<>>, "B", <<ClassRef("A")>>), 0)},
        M \in {PlainM,
               <<Node(StrKey("k"), InstanceRef("M"))>>,
               <<Node(StrKey("k"), [type |-> "module"])>>}}

\* solidify.dump(mod) on a module
ModuleInputs ==
    {[heap |-> Heap([members |-> members, super |-> NULL],
                    PlainClass,
                    Closure(Proto("f", {}, <<>>, parent, ktab), 0),
                    PlainG, PlainM, table),
      args |-> [v |-> [type |-> "module"], prefix |-> NULL]] :
        members \in {NoMap, MapOf(<<Node(StrKey("f"), ClosureRef("f"))>>)},
        parent \in {NULL, "A", "B"},
        ktab \in {<<>>, <<ClassRef("B")>>},
        table \in {NoMap,
                   MapOf(<<Node(StrKey("f"), ClosureRef("f"))>>),
                   MapOf(<<Node(StrKey("A"), ClassRef("A"))>>),
                   MapOf(<<Node(StrKey("c"), IntValue),
                           Node(StrKey("f"), ClosureRef("f")),
                           Node(StrKey("A"), ClassRef("A"))>>)}}

\* solidify.dump(42): neither closure, class nor module
OtherInputs ==
    {[heap |-> Heap(PlainClass, PlainClass, PlainG, PlainG, PlainM, NoMap),
      args |-> [v |-> IntValue, prefix |-> NULL]]}

InitDump ==
    /\ \E in \in ClosureInputs \cup ClassInputs \cup ModuleInputs \cup OtherInputs :
         heap = in.heap /\ args = in.args
    /\ stack = <<>>
    /\ dpc = "start"
    /\ str_literal \in BOOLEAN
    /\ sink = <<>>
    /\ raised = "none"
    /\ IdleValue /\ IdleProto /\ IdleMap

NextDump ==
    \/ Dump
    \/ ClosureCheck
    \/ ClosureInner
    \/ ClosureBody
    \/ SubclassExtern
    \/ SubclassMember
    \/ SubclassDefine
    \/ SubclassClose
    \/ DumpMapOpen
    \/ DumpMapNode
    \/ DumpMapValueEnd
    \/ DumpMapClose
    \/ ModuleMember
    \/ ModuleDefine
    \/ ModuleClose

SpecDump == InitDump /\ [][NextDump]_vars

(***************************************************************************)
(* Properties of SpecDump.                                                 *)
(***************************************************************************)
\* a call of m_solidify_closure, at its entry, on a closure with a parent
\* class
ClosureWithParentAtEntry ==
    /\ DumpAt("closure", "entry")
    /\ m_solidify_get_parentclass(ProtoOf(DumpTop.obj)) # NULL

SameCall(f, g) == f.fn = g.fn /\ f.obj = g.obj /\ f.prefix = g.prefix

\* C8: solidify.dump never recurses without bound: no call is active inside
\* a call of the same procedure on the same object with the same prefix (the
\* heap is not changed, so such a call repeats its caller for ever), and the
\* native stack is not exhausted.
C8_NoUnboundedRecursion ==
    /\ dpc # "stack_overflow"
    /\ \A i, j \in 1..Len(stack) : i < j => ~SameCall(stack[i], stack[j])

\* the positions of the sink that hold the definition be_local_class(C,
ClassDefs(C) ==
    {k \in 1..Len(sink) : sink[k].kind = "local_class" /\ sink[k].class = C}
\* the positions of the sink written by m_solidify_closure itself
ClosureTexts ==
    {k \in 1..Len(sink) :
        sink[k].kind \in {"borrowed_comment", "extern_closure",
                          "banner_function", "local_closure", "closure_end"}}
\* the string-keyed closure members of class C
MethodsOf(C) ==
    LET members == heap.class[C].members
    IN {members.nodes[k].value.id : k \in
          {n \in 1..Len(members.nodes) :
              /\ members.nodes[n].key.type = "string"
              /\ members.nodes[n].value.type = "closure"}}
\* m_solidify_closure on clo has written its body with this prefix
BodyWritten(clo, prefixname) ==
    \E k \in 1..Len(sink) :
        /\ sink[k].kind = "local_closure"
        /\ sink[k].name = ProtoOf(clo).name
        /\ sink[k].prefix = prefixname
\* m_solidify_closure on clo has written its borrowed declaration
StubWritten(clo) ==
    \E k \in 1..Len(sink) :
        /\ sink[k].kind = "extern_closure"
        /\ sink[k].name = ProtoOf(clo).name
        /\ sink[k].prefix = ClassPrefix(m_solidify_get_parentclass(ProtoOf(clo)))

\* C11: in the output of m_solidify_subclass for class C (the whole sink of
\* solidify.dump(C)), the forward declaration of C comes first, every call
\* of m_solidify_closure made for a member of a class has the prefix of that
\* class, everything m_solidify_closure writes comes before the definition
\* be_local_class(C, and that definition is written at most once, exactly
\* once when the call has returned, by when every string-keyed closure
\* member has been written with prefix class_C or as a borrowed declaration.
C11_ClassEmissionOrder ==
    /\ \A i \in 2..Len(stack) :
          (stack[i].fn = "closure" /\ stack[i - 1].fn = "subclass") =>
              /\ stack[i].prefix = ClassPrefix(stack[i - 1].obj)
              /\ stack[i - 1].step = "members"
              /\ \E e \in 1..Len(sink) :
                    /\ sink[e] = [kind |-> "extern_class", class |-> stack[i - 1].obj]
                    /\ \A d \in ClassDefs(stack[i - 1].obj) : d < e
    /\ args.v.type = "class" =>
          LET C == args.v.name
          IN /\ sink # <<>> => sink[1] = [kind |-> "extern_class", class |-> C]
             /\ Cardinality(ClassDefs(C)) <= 1
             /\ \A d \in ClassDefs(C) : \A k \in ClosureTexts : k < d
             /\ dpc = "returned" =>
                   /\ Cardinality(ClassDefs(C)) = 1
                   /\ \A clo \in MethodsOf(C) :
                         BodyWritten(clo, ClassPrefix(C)) \/ StubWritten(clo)

\* solidify.dump(A) has returned, for a class A with a method of its own and
\* a borrowed one
C11_Witness ==
    /\ args.v.type = "class"
    /\ dpc = "returned"
    /\ MethodsOf("A") = {"f", "g"}
    /\ BodyWritten("f", "class_A")
    /\ StubWritten("g") /\ ~BodyWritten("g", "class_A")

\* the prototypes of the heap: those of the closures and their sub-prototypes
RECURSIVE ProtosIn(_)
ProtosIn(pr) ==
    {pr} \cup UNION {ProtosIn(pr.ptab[i]) : i \in 1..pr.nproto}
HeapProtos == UNION {ProtosIn(ProtoOf(clo)) : clo \in DOMAIN heap.closure}

\* the class constants of pr but the `_class` constant of a static method
InnerClasses(pr) ==
    {pr.ktab[k].name : k \in
        {n \in 1..Len(pr.ktab) :
            /\ pr.ktab[n].type = "class"
            /\ ~(n = 1 /\ "STATICMETHOD" \in pr.varg)}}

\* C12: wherever the body of a prototype is on the sink, that of a closure
\* or of a sub-prototype at any depth, the definition of every class constant
\* of its constant table is on the sink before it, but for the constant at
\* index 0 of a static method.
C12_InnerClassesFirst ==
    \A p \in 1..Len(sink) :
        sink[p].kind = "proto" =>
            \A pr \in HeapProtos :
                pr.name = sink[p].name =>
                    \A C \in InnerClasses(pr) :
                        \E d \in 1..(p - 1) :
                            sink[d].kind = "local_class" /\ sink[d].class = C

\* C13: whenever m_solidify_closure compares the prefix of the parent class
\* with prefixname, that is on every call for a closure with a parent class,
\* prefixname is there: strcmp never reads through a null prefix.
C13_PrefixPresentAtComparison ==
    /\ ClosureWithParentAtEntry => DumpTop.prefix # NULL
    /\ dpc # "segfault"

====
